---- MODULE Spec2Model ----
(***************************************************************************)
(* Model of addons/docs/src/frameworks/react/propTypes/renderType.ts: the  *)
(* recursive formatter of react-docgen PropTypes descriptors into a        *)
(* TypeDef {name, caption, value, inferedType}, and renderType on top.     *)
(*                                                                         *)
(* JavaScript strings are TLA+ strings.  undefined/null in a string        *)
(* position is the reserved string Nil; undefined in an object position    *)
(* is the record Undefined.  Every JavaScript object of the input carries  *)
(* a tag k ("descriptor", "string", "array", "object", "tags", ...).       *)
(* An exception is an outcome with thrown = TRUE; console.error calls are  *)
(* recorded in a log of the nesting depths at which a catch block ran.     *)
(***************************************************************************)
EXTENDS Integers, Sequences, FiniteSets, TLC

VARIABLES
    type,        \* extractedProp.docgenInfo.type, the top-level descriptor
    jsDocTags,   \* extractedProp.jsDocTags
    inspect,     \* behaviour of inspectValue on the texts it is asked about
    pc,          \* "start", "generated", "rendered"; "strings" for shortifyPropTypes
    result,      \* TypeDef returned by generateType, or the escaped exception
    log,         \* console.error calls: depths of the catch blocks that ran
    rendered,    \* what renderType returned
    str,         \* string handed to shortifyPropTypes
    stripped     \* stripped[n]: str after n successive shortifyPropTypes calls

vars == <<type, jsDocTags, inspect, pc, result, log, rendered, str, stripped>>

----------------------------------------------------------------------------
(* Constants of the source and of the modules it imports *)

MAX_CAPTION_LENGTH == 35

Nil == "<nil>"
Undefined == [k |-> "undefined"]

PropTypesType_CUSTOM == "custom"
PropTypesType_FUNC == "func"
PropTypesType_SHAPE == "shape"
PropTypesType_INSTANCEOF == "instanceOf"
PropTypesType_OBJECTOF == "objectOf"
PropTypesType_UNION == "union"
PropTypesType_ENUM == "enum"
PropTypesType_ARRAYOF == "arrayOf"

InspectionType_STRING == "string"
InspectionType_OBJECT == "object"
InspectionType_FUNCTION == "function"

Throws == "<throws>"

----------------------------------------------------------------------------
(* JavaScript primitives used by the source *)

isNil(v) == v = Nil

\* `${v}` inside a template literal
TemplateText(v) == IF isNil(v) THEN "undefined" ELSE v

\* Array.prototype.join: undefined and null elements are rendered empty
RECURSIVE join(_, _)
join(parts, sep) ==
    IF Len(parts) = 0 THEN ""
    ELSE IF Len(parts) = 1 THEN (IF isNil(parts[1]) THEN "" ELSE parts[1])
    ELSE (IF isNil(parts[1]) THEN "" ELSE parts[1]) \o sep \o join(Tail(parts), sep)

\* the regular expression atom "." matches any character but a line terminator
DotMatches(c) == c \notin {"\n", "\r"}

\* value.replace(/PropTypes./g, '')
RECURSIVE ReplacePropTypes(_)
ReplacePropTypes(s) ==
    IF Len(s) = 0 THEN ""
    ELSE IF /\ Len(s) >= 10
            /\ SubSeq(s, 1, 9) = "PropTypes"
            /\ DotMatches(SubSeq(s, 10, 10))
         THEN ReplacePropTypes(SubSeq(s, 11, Len(s)))
         ELSE SubSeq(s, 1, 1) \o ReplacePropTypes(SubSeq(s, 2, Len(s)))

\* value.replace(/.isRequired/g, '')
RECURSIVE ReplaceIsRequired(_)
ReplaceIsRequired(s) ==
    IF Len(s) = 0 THEN ""
    ELSE IF /\ Len(s) >= 11
            /\ DotMatches(SubSeq(s, 1, 1))
            /\ SubSeq(s, 2, 11) = "isRequired"
         THEN ReplaceIsRequired(SubSeq(s, 12, Len(s)))
         ELSE SubSeq(s, 1, 1) \o ReplaceIsRequired(SubSeq(s, 2, Len(s)))

\* value.replace(/PropTypes./, '') and value.replace(/.isRequired/, ''): no g flag
RECURSIVE ReplaceFirstPropTypes(_)
ReplaceFirstPropTypes(s) ==
    IF Len(s) = 0 THEN ""
    ELSE IF /\ Len(s) >= 10
            /\ SubSeq(s, 1, 9) = "PropTypes"
            /\ DotMatches(SubSeq(s, 10, 10))
         THEN SubSeq(s, 11, Len(s))
         ELSE SubSeq(s, 1, 1) \o ReplaceFirstPropTypes(SubSeq(s, 2, Len(s)))

RECURSIVE ReplaceFirstIsRequired(_)
ReplaceFirstIsRequired(s) ==
    IF Len(s) = 0 THEN ""
    ELSE IF /\ Len(s) >= 11
            /\ DotMatches(SubSeq(s, 1, 1))
            /\ SubSeq(s, 2, 11) = "isRequired"
         THEN SubSeq(s, 12, Len(s))
         ELSE SubSeq(s, 1, 1) \o ReplaceFirstIsRequired(SubSeq(s, 2, Len(s)))

shortifyFirstOnly(value) == ReplaceFirstIsRequired(ReplaceFirstPropTypes(value))

shortifyPropTypes(value) == ReplaceIsRequired(ReplacePropTypes(value))

----------------------------------------------------------------------------
(* Outcomes of a call: a returned TypeDef or a thrown exception, with the  *)
(* console.error calls made on the way                                     *)

NoDef == [name |-> Nil, caption |-> Nil, value |-> Nil, inferedType |-> Nil]
Return(def, l) == [thrown |-> FALSE, def |-> def, log |-> l]
Throw(l) == [thrown |-> TRUE, def |-> NoDef, log |-> l]

AnyThrown(outs) == \E i \in DOMAIN outs : outs[i].thrown
FirstThrown(outs) ==
    CHOOSE i \in DOMAIN outs : outs[i].thrown /\ \A j \in 1..(i - 1) : ~outs[j].thrown

\* the log after the first n calls of a map/reduce
RECURSIVE LogsOf(_, _)
LogsOf(outs, n) == IF n = 0 THEN <<>> ELSE LogsOf(outs, n - 1) \o outs[n].log

createTypeDef(name, caption, value, inferedType) ==
    [name |-> name,
     caption |-> caption,
     value |-> IF ~isNil(value) THEN value ELSE caption,
     inferedType |-> inferedType]

\* inspectValue(text): { inferedType } or an exception
inspectValue(text) == inspect[text]

generateComputedValue(typeName, value) ==
    LET inferedType == inspectValue(value) IN
    IF inferedType = Throws THEN Throw(<<>>)
    ELSE Return(createTypeDef(typeName,
                              inferedType,
                              IF inferedType = InspectionType_OBJECT
                                  THEN shortifyPropTypes(value) ELSE value,
                              inferedType), <<>>)

generateCustom(t) ==
    IF ~isNil(t.raw) THEN
        LET inferedType == inspectValue(t.raw) IN
        IF inferedType = Throws THEN Throw(<<>>)
        ELSE LET value == IF inferedType = InspectionType_OBJECT
                              THEN shortifyPropTypes(t.raw) ELSE t.raw
             IN Return(createTypeDef(PropTypesType_CUSTOM,
                                     IF Len(value) <= MAX_CAPTION_LENGTH
                                         THEN value ELSE "custom",
                                     value,
                                     inferedType), <<>>)
    ELSE Return(createTypeDef(PropTypesType_CUSTOM, "custom", Nil, Nil), <<>>)

\* a parameter rendered without its type name
funcParamNameOnly(x) == x.prettyName

\* jsDocTags.params.map(...) of generateFuncSignature: one parameter's text
funcParam(x) ==
    IF ~isNil(x.typeName) THEN x.prettyName \o ": " \o x.typeName
    ELSE x.prettyName

generateFuncSignature(extractedProp, hasParams, hasReturns) ==
    LET tags == extractedProp.jsDocTags
        items == tags.params.items
        paramsThrow == hasParams /\ \E i \in DOMAIN items : items[i].typeName = Throws
        funcParams == [i \in DOMAIN items |-> funcParam(items[i])]
        first == IF hasParams THEN "(" \o join(funcParams, ", ") \o ")" ELSE "()"
        funcParts == IF hasReturns
                        THEN <<first, "=> " \o TemplateText(tags.returns.typeName)>>
                        ELSE <<first>>
    IN IF paramsThrow \/ (hasReturns /\ tags.returns.typeName = Throws)
       THEN Throws
       ELSE join(funcParts, " ")

generateFunc(extractedProp) ==
    LET tags == extractedProp.jsDocTags
        hasParams == tags.params # Undefined
        hasReturns == tags.returns # Undefined
    IN IF tags # Undefined /\ (hasParams \/ hasReturns)
       THEN LET signature == generateFuncSignature(extractedProp, hasParams, hasReturns)
            IN IF signature = Throws THEN Throw(<<>>)
               ELSE Return(createTypeDef(PropTypesType_FUNC, "func", signature, Nil), <<>>)
       ELSE Return(createTypeDef(PropTypesType_FUNC, "func", Nil, Nil), <<>>)

RECURSIVE generateType(_, _, _)

\* elision at the threshold itself
shapeCaptionStrict(shape) == IF Len(shape) < MAX_CAPTION_LENGTH THEN shape ELSE "object"

\* caption of generateShape
shapeCaption(shape) == IF Len(shape) <= MAX_CAPTION_LENGTH THEN shape ELSE "object"

\* one entry of the Object.keys(type.value).map(...) of generateShape
shapeField(key, def) == key \o ": " \o TemplateText(def.value)

generateShape(t, extractedProp, depth) ==
    IF t.value.k # "object" THEN Throw(<<>>)   \* Object.keys(undefined): TypeError
    ELSE
        LET entries == t.value.fields          \* in Object.keys order
            outs == [i \in DOMAIN entries |->
                        generateType(entries[i].type, extractedProp, depth + 1)]
        IN IF AnyThrown(outs) THEN Throw(LogsOf(outs, FirstThrown(outs)))
           ELSE LET fields == join([i \in DOMAIN entries |->
                                       shapeField(entries[i].key, outs[i].def)], ", ")
                    shape == "{ " \o fields \o " }"
                IN Return(createTypeDef(PropTypesType_SHAPE, shapeCaption(shape), shape, Nil),
                          LogsOf(outs, Len(outs)))

generateObjectOf(t, extractedProp, depth) ==
    LET out == generateType(t.value, extractedProp, depth + 1)
        name == out.def.name
        value == out.def.value
        inferedType == out.def.inferedType
        caption ==
            IF name = PropTypesType_CUSTOM
            THEN IF /\ ~isNil(inferedType)
                    /\ inferedType # InspectionType_STRING
                    /\ inferedType # InspectionType_OBJECT
                 THEN inferedType
                 ELSE out.def.caption
            ELSE IF name = PropTypesType_SHAPE /\ Len(value) <= MAX_CAPTION_LENGTH
                 THEN value
                 ELSE out.def.caption
        format(of) == "objectOf(" \o TemplateText(of) \o ")"
    IN IF out.thrown THEN Throw(out.log)
       ELSE Return(createTypeDef(PropTypesType_OBJECTOF, format(caption), format(value), Nil),
                   out.log)

\* members pushed to the front of acc.caption instead of the back
reduceCaptionsReversed(outs) ==
    [i \in DOMAIN outs |-> outs[Len(outs) + 1 - i].def.caption]

\* the acc.caption / acc.value arrays a reduce of generateUnion or generateEnum builds
reduceCaptions(outs) == [i \in DOMAIN outs |-> outs[i].def.caption]
reduceValues(outs) == [i \in DOMAIN outs |-> outs[i].def.value]

\* caption: type.value, for a value that is no array
scalarOf(v) == IF v.k = "string" THEN v.s ELSE Nil

generateUnion(t, extractedProp, depth) ==
    IF t.value.k = "array" THEN
        LET outs == [i \in DOMAIN t.value.items |->
                        generateType(t.value.items[i], extractedProp, depth + 1)]
        IN IF AnyThrown(outs) THEN Throw(LogsOf(outs, FirstThrown(outs)))
           ELSE Return(createTypeDef(PropTypesType_UNION,
                                     join(reduceCaptions(outs), " | "),
                                     join(reduceValues(outs), " | "),
                                     Nil),
                       LogsOf(outs, Len(outs)))
    ELSE Return(createTypeDef(PropTypesType_UNION, scalarOf(t.value), Nil, Nil), <<>>)

generateEnumValue(v) ==
    IF v.computed THEN generateComputedValue("enumvalue", v.value)
    ELSE Return(createTypeDef("enumvalue", v.value, Nil, Nil), <<>>)

generateEnum(t) ==
    IF t.value.k = "array" THEN
        LET outs == [i \in DOMAIN t.value.items |-> generateEnumValue(t.value.items[i])]
        IN IF AnyThrown(outs) THEN Throw(<<>>)
           ELSE Return(createTypeDef(PropTypesType_ENUM,
                                     join(reduceCaptions(outs), " | "),
                                     join(reduceValues(outs), " | "),
                                     Nil), <<>>)
    ELSE Return(createTypeDef(PropTypesType_ENUM, scalarOf(t.value), Nil, Nil), <<>>)

\* the closing bracket left out
braceAroundOpen(of) == "[" \o TemplateText(of)

braceAfter(of) == TemplateText(of) \o "[]"

braceAround(of) == "[" \o TemplateText(of) \o "]"

generateArray(t, extractedProp, depth) ==
    LET out == generateType(t.value, extractedProp, depth + 1)
        name == out.def.name
        value == out.def.value
        inferedType == out.def.inferedType
        \* line 238 assigns caption = inferedType.toString() for a Custom element of
        \* another inferred kind and falls through to the final return, which reads
        \* value and not caption
        fallThrough == createTypeDef(PropTypesType_ARRAYOF, braceAfter(value), Nil, Nil)
    IN IF out.thrown THEN Throw(out.log)
       ELSE IF name = PropTypesType_CUSTOM
       THEN IF ~isNil(inferedType) /\ inferedType = InspectionType_OBJECT
            THEN Return(createTypeDef(PropTypesType_ARRAYOF,
                                      IF Len(value) <= MAX_CAPTION_LENGTH
                                          THEN braceAround(value)
                                          ELSE braceAfter(inferedType),
                                      braceAround(value), Nil), out.log)
            ELSE Return(fallThrough, out.log)
       ELSE IF name = PropTypesType_SHAPE
       THEN Return(createTypeDef(PropTypesType_ARRAYOF,
                                 IF Len(value) <= MAX_CAPTION_LENGTH
                                     THEN braceAround(value)
                                     ELSE braceAfter(out.def.caption),
                                 braceAround(value), Nil), out.log)
       ELSE Return(fallThrough, out.log)

\* an unrecognised kind sent to the fallback
defaultTypeDefUnknown(t) == createTypeDef("unknown", "unknown", Nil, Nil)

\* the default branch of the switch of generateType
defaultTypeDef(t) == createTypeDef(t.name, t.name, Nil, Nil)

\* the try block of generateType: the switch on type.name
dispatch(t, extractedProp, depth) ==
    IF t.k = "undefined" THEN Throw(<<>>)      \* type.name of undefined: TypeError
    ELSE IF t.name = PropTypesType_CUSTOM THEN generateCustom(t)
    ELSE IF t.name = PropTypesType_FUNC THEN generateFunc(extractedProp)
    ELSE IF t.name = PropTypesType_SHAPE THEN generateShape(t, extractedProp, depth)
    ELSE IF t.name = PropTypesType_INSTANCEOF
        THEN Return(createTypeDef(PropTypesType_INSTANCEOF, scalarOf(t.value), Nil, Nil), <<>>)
    ELSE IF t.name = PropTypesType_OBJECTOF THEN generateObjectOf(t, extractedProp, depth)
    ELSE IF t.name = PropTypesType_UNION THEN generateUnion(t, extractedProp, depth)
    ELSE IF t.name = PropTypesType_ENUM THEN generateEnum(t)
    ELSE IF t.name = PropTypesType_ARRAYOF THEN generateArray(t, extractedProp, depth)
    ELSE Return(defaultTypeDef(t), <<>>)

\* the exception thrown again instead of swallowed
catchFaultRethrows(out, depth) == Throw(out.log)

\* a fallback whose caption is not "unknown"
catchFaultOtherCaption(out, depth) ==
    Return(createTypeDef("unknown", "error", Nil, Nil), Append(out.log, depth))

\* the catch block of generateType and the return that follows it
catchFault(out, depth) ==
    Return(createTypeDef("unknown", "unknown", Nil, Nil), Append(out.log, depth))

generateType(t, extractedProp, depth) ==
    LET out == dispatch(t, extractedProp, depth)
    IN IF out.thrown THEN catchFault(out, depth) ELSE out

\* createPropText(text, { title }) and the null of the default branch
PropText(text, title) == [k |-> "PropText", text |-> text, title |-> title]
Null == [k |-> "null"]

\* the title attached even when nothing was elided
titleOfAlways(caption, value) == value

\* the title renderType hands to createPropText
titleOf(caption, value) == IF caption # value THEN value ELSE Nil

renderType(extractedProp) ==
    LET t == extractedProp.docgenInfo.type IN
    IF t.name \in {PropTypesType_CUSTOM, PropTypesType_SHAPE, PropTypesType_INSTANCEOF,
                   PropTypesType_OBJECTOF, PropTypesType_UNION, PropTypesType_ENUM,
                   PropTypesType_ARRAYOF}
    THEN LET out == generateType(t, extractedProp, 0)
         IN [node |-> PropText(out.def.caption, titleOf(out.def.caption, out.def.value)),
             log |-> out.log]
    ELSE IF t.name = PropTypesType_FUNC
    THEN LET out == generateType(t, extractedProp, 0)
         IN [node |-> PropText(out.def.value, Nil), log |-> out.log]
    ELSE [node |-> Null, log |-> <<>>]

----------------------------------------------------------------------------
(* Inputs *)

MaxFields == 2     \* fields of a Shape
MaxMembers == 2    \* members of a Union or an Enum
MaxParams == 2     \* documented parameters of a function
MaxPieces == 3     \* pieces a string handed to shortifyPropTypes is made of
MaxCalls == 2      \* successive shortifyPropTypes calls

Descriptor(name, value, raw) ==
    [k |-> "descriptor", name |-> name, value |-> value, raw |-> raw]
StringValue(s) == [k |-> "string", s |-> s]
ArrayValue(items) == [k |-> "array", items |-> items]
ObjectValue(fields) == [k |-> "object", fields |-> fields]
Field(key, t) == [key |-> key, type |-> t]
EnumValue(value, computed) == [value |-> value, computed |-> computed]

SeqsUpTo(S, n) == UNION {[1..m -> S] : m \in 0..n}
Injective(f) == \A i, j \in DOMAIN f : i # j => f[i] # f[j]

RawObject == "PropTypes.shape({}).isRequired"
RawFits == "() => { return 'a thirty-five!!'; }"
RawLong == "function validate(props) { return; }"
RawStrips == "PropTypes.oneOf(['left', 'right', 'center!']).isRequired"
Class28 == "AbstractSingletonProxyBeans1"
Class29 == "AbstractSingletonProxyBeans12"

Custom(raw) == Descriptor(PropTypesType_CUSTOM, Undefined, raw)
InstanceOf(v) == Descriptor(PropTypesType_INSTANCEOF, v, Nil)
Other(name) == Descriptor(name, Undefined, Nil)
Func == Descriptor(PropTypesType_FUNC, Undefined, Nil)
Shape(v) == Descriptor(PropTypesType_SHAPE, v, Nil)
Union(v) == Descriptor(PropTypesType_UNION, v, Nil)
Enum(v) == Descriptor(PropTypesType_ENUM, v, Nil)
ArrayOf(t) == Descriptor(PropTypesType_ARRAYOF, t, Nil)
ObjectOf(t) == Descriptor(PropTypesType_OBJECTOF, t, Nil)

Keys == {"a", "b", "c"}
EnumValues == {EnumValue("'a'", FALSE), EnumValue("'b'", FALSE), EnumValue(RawObject, TRUE)}

Leaves ==
    {Custom(r) : r \in {RawObject, RawFits, RawLong, RawStrips, Nil}}
    \cup {InstanceOf(v) : v \in {StringValue("Date"), StringValue(Class28),
                                 StringValue(Class29), Undefined}}
    \cup {Other(n) : n \in {"string", "unknown"}}
    \cup {Func, Shape(Undefined), Union(StringValue("A | B")), Enum(Undefined)}
    \cup {Enum(ArrayValue(m)) : m \in SeqsUpTo(EnumValues, MaxMembers)}

\* the descriptors nested inside the composite ones
Nested ==
    {Custom(RawObject), Custom(RawLong), Func, InstanceOf(StringValue("Date")),
     InstanceOf(Undefined), Other("string"), Shape(Undefined)}

FieldSeqs(S) ==
    UNION {{[i \in 1..m |-> Field(ks[i], ts[i])] :
                ks \in {f \in [1..m -> Keys] : Injective(f)}, ts \in [1..m -> S]} :
           m \in 0..MaxFields}

Shapes ==
    {Shape(ObjectValue(f)) : f \in FieldSeqs(Nested)}
    \cup {Shape(ObjectValue(<<Field("a", t)>>)) : t \in Leaves}

Unions == {Union(ArrayValue(m)) : m \in SeqsUpTo(Nested, MaxMembers)}

Elements == Leaves \cup Shapes \cup {Undefined}

Descriptors ==
    Leaves \cup Shapes \cup Unions
    \cup {ArrayOf(t) : t \in Elements} \cup {ObjectOf(t) : t \in Elements}
    \cup {Shape(ObjectValue(<<Field("a", w)>>)) :
            w \in {ArrayOf(t) : t \in Nested} \cup {ObjectOf(t) : t \in Nested}}

\* the texts inspectValue is asked about while a descriptor is formatted
RECURSIVE TextsOf(_)
TextsOf(t) ==
    IF t.k = "undefined" THEN {}
    ELSE IF t.name = PropTypesType_CUSTOM THEN {t.raw} \ {Nil}
    ELSE IF t.name = PropTypesType_SHAPE /\ t.value.k = "object"
        THEN UNION {TextsOf(t.value.fields[i].type) : i \in DOMAIN t.value.fields}
    ELSE IF t.name = PropTypesType_UNION /\ t.value.k = "array"
        THEN UNION {TextsOf(t.value.items[i]) : i \in DOMAIN t.value.items}
    ELSE IF t.name = PropTypesType_ENUM /\ t.value.k = "array"
        THEN {t.value.items[i].value : i \in {j \in DOMAIN t.value.items :
                                                  t.value.items[j].computed}}
    ELSE IF t.name \in {PropTypesType_ARRAYOF, PropTypesType_OBJECTOF}
        THEN TextsOf(t.value)
    ELSE {}

\* whether formatting a descriptor reaches generateFunc
RECURSIVE UsesDocs(_)
UsesDocs(t) ==
    IF t.k = "undefined" THEN FALSE
    ELSE IF t.name = PropTypesType_FUNC THEN TRUE
    ELSE IF t.name = PropTypesType_SHAPE /\ t.value.k = "object"
        THEN \E i \in DOMAIN t.value.fields : UsesDocs(t.value.fields[i].type)
    ELSE IF t.name = PropTypesType_UNION /\ t.value.k = "array"
        THEN \E i \in DOMAIN t.value.items : UsesDocs(t.value.items[i])
    ELSE IF t.name \in {PropTypesType_ARRAYOF, PropTypesType_OBJECTOF}
        THEN UsesDocs(t.value)
    ELSE FALSE

InspectionOutcomes ==
    {InspectionType_STRING, InspectionType_OBJECT, InspectionType_FUNCTION, Throws}

Param(prettyName, typeName) == [prettyName |-> prettyName, typeName |-> typeName]
Returns(typeName) == [k |-> "returns", typeName |-> typeName]
Tags(params, returns) == [k |-> "tags", params |-> params, returns |-> returns]

ParamLists ==
    {Undefined, ArrayValue(<<Param("x", Throws)>>)}
    \cup {ArrayValue(ps) : ps \in SeqsUpTo({Param("x", "number"), Param("y", Nil)}, MaxParams)}

DocTags ==
    {Undefined} \cup {Tags(ps, r) : ps \in ParamLists, r \in {Undefined, Returns("string")}}

\* the documentation tags tried on a descriptor that only nests a function
FewDocTags ==
    {Undefined,
     Tags(ArrayValue(<<Param("x", "number"), Param("y", Nil)>>), Returns("string")),
     Tags(ArrayValue(<<Param("x", Throws)>>), Undefined)}

Pieces ==
    {"PropTypes.", ".isRequired", "Prop", "Types.", "PropT", "ypes", ".isReq", "uired",
     "isRequired", "shape", "PropTypes\n", "\nisRequired"}

RECURSIVE Concat(_)
Concat(ps) == IF Len(ps) = 0 THEN "" ELSE ps[1] \o Concat(Tail(ps))

Strings == {Concat(ps) : ps \in SeqsUpTo(Pieces, MaxPieces)}

----------------------------------------------------------------------------
(* The state machine: one call of generateType or of renderType on an      *)
(* extracted property; successive calls of shortifyPropTypes on a string   *)

NoResult == [k |-> "none"]
Exception == [k |-> "exception"]

ExtractedProp == [docgenInfo |-> [type |-> type], jsDocTags |-> jsDocTags]

Init ==
    /\ type \in Descriptors
    /\ jsDocTags \in (IF type = Func THEN DocTags
                      ELSE IF UsesDocs(type) THEN FewDocTags ELSE {Undefined})
    /\ inspect \in [TextsOf(type) -> InspectionOutcomes]
    /\ pc = "start"
    /\ result = NoResult
    /\ log = <<>>
    /\ rendered = NoResult
    /\ str = ""
    /\ stripped = <<>>

GenerateType ==
    /\ pc = "start"
    /\ LET out == generateType(type, ExtractedProp, 0)
       IN /\ result' = (IF out.thrown THEN Exception ELSE out.def)
          /\ log' = out.log
    /\ pc' = "generated"
    /\ UNCHANGED <<type, jsDocTags, inspect, rendered, str, stripped>>

RenderType ==
    /\ pc = "start"
    /\ LET r == renderType(ExtractedProp)
       IN /\ rendered' = r.node
          /\ log' = r.log
    /\ pc' = "rendered"
    /\ UNCHANGED <<type, jsDocTags, inspect, result, str, stripped>>

Next == GenerateType \/ RenderType

Spec == Init /\ [][Next]_vars

InitStrings ==
    /\ type = Undefined
    /\ jsDocTags = Undefined
    /\ inspect = <<>>
    /\ pc = "strings"
    /\ result = NoResult
    /\ log = <<>>
    /\ rendered = NoResult
    /\ str \in Strings
    /\ stripped = <<>>

Shortify ==
    /\ pc = "strings"
    /\ Len(stripped) < MaxCalls
    /\ stripped' = Append(stripped, shortifyPropTypes(IF stripped = <<>> THEN str
                                                       ELSE stripped[Len(stripped)]))
    /\ UNCHANGED <<type, jsDocTags, inspect, pc, result, log, rendered, str>>

NextStrings == Shortify

SpecStrings == InitStrings /\ [][NextStrings]_vars

----------------------------------------------------------------------------
(* Properties *)

Unknown ==
    [name |-> "unknown", caption |-> "unknown", value |-> "unknown", inferedType |-> Nil]

KnownKinds ==
    {PropTypesType_CUSTOM, PropTypesType_FUNC, PropTypesType_SHAPE,
     PropTypesType_INSTANCEOF, PropTypesType_OBJECTOF, PropTypesType_UNION,
     PropTypesType_ENUM, PropTypesType_ARRAYOF}

\* a catch block ran at nesting depth d (0: the top-level call)
CaughtAt(d) == \E i \in DOMAIN log : log[i] = d

RECURSIVE Contains(_, _)
Contains(s, sub) ==
    /\ Len(s) >= Len(sub)
    /\ \/ SubSeq(s, 1, Len(sub)) = sub
       \/ Contains(SubSeq(s, 2, Len(s)), sub)

\* the TypeDef a descriptor nested directly in the top-level one formats to
NestedDef(t) == generateType(t, ExtractedProp, 1).def

\* C1: generateType is total: whatever the descriptor, the classifier and the
\* documentation tags do, throwing included, the call returns a TypeDef with name,
\* caption and value fields and no exception reaches the caller.
C1_Total ==
    pc = "generated" =>
        /\ result # Exception
        /\ {"name", "caption", "value"} \subseteq DOMAIN result

\* a call during which the classifier threw, and which returned all the same
C1_Witness ==
    /\ pc = "generated"
    /\ \E text \in DOMAIN inspect : inspect[text] = Throws
    /\ log # <<>>
    /\ result # Exception

\* C2 as stated: a fault raised at any nesting depth makes the result of the
\* top-level call exactly the "unknown" fallback.
C2_Original == (pc = "generated" /\ log # <<>>) => result = Unknown

\* C2 amended: a fault is caught by the generateType call of the descriptor in whose
\* own frame it was raised.  Raised in the top-level frame, the top-level result is
\* exactly the fallback; raised only inside nested descriptors, the top-level result
\* keeps the top-level kind and its value holds "unknown" as a segment.
C2_Amended ==
    pc = "generated" =>
        /\ CaughtAt(0) => result = Unknown
        /\ (log # <<>> /\ ~CaughtAt(0)) =>
              /\ result.name = type.name
              /\ result # Unknown
              /\ Contains(result.value, "unknown")

\* a Shape one of whose fields faulted: the fault was caught one level down
C2_Witness ==
    /\ pc = "generated"
    /\ type.name = PropTypesType_SHAPE
    /\ log # <<>>
    /\ ~CaughtAt(0)
    /\ Contains(result.value, ": unknown")

\* the brace-wrapped rendering of the top-level Shape, built from its fields
ShapeText ==
    LET entries == type.value.fields
        segment(i) == entries[i].key \o ": " \o TemplateText(NestedDef(entries[i].type).value)
    IN "{ " \o join([i \in DOMAIN entries |-> segment(i)], ", ") \o " }"

MemberDef(i) ==
    IF type.name = PropTypesType_UNION THEN NestedDef(type.value.items[i])
    ELSE generateEnumValue(type.value.items[i]).def

\* the classifier returns on every computed member of the top-level Enum
MembersClassified ==
    type.name = PropTypesType_ENUM =>
        \A i \in DOMAIN type.value.items :
            type.value.items[i].computed => inspect[type.value.items[i].value] # Throws

\* C4: for a Union or Enum whose value is a sequence of n members, caption is the n
\* member captions joined by " | " and value the n member values joined by " | ",
\* the i-th segment from the i-th member.
C4_MemberOrder ==
    (/\ pc = "generated"
     /\ type.name \in {PropTypesType_UNION, PropTypesType_ENUM}
     /\ type.value.k = "array"
     /\ MembersClassified) =>
        LET n == Len(type.value.items) IN
        /\ result.name = type.name
        /\ result.caption = join([i \in 1..n |-> MemberDef(i).caption], " | ")
        /\ result.value = join([i \in 1..n |-> MemberDef(i).value], " | ")

\* two members whose captions differ from each other and from their values
C4_Witness ==
    /\ pc = "generated"
    /\ type.name \in {PropTypesType_UNION, PropTypesType_ENUM}
    /\ type.value.k = "array"
    /\ Len(type.value.items) = 2
    /\ MembersClassified
    /\ MemberDef(1).caption # MemberDef(2).caption
    /\ MemberDef(1).caption # MemberDef(1).value
    /\ result.caption = MemberDef(1).caption \o " | " \o MemberDef(2).caption

\* the TypeDef generateType gives the top-level descriptor
TopDef == generateType(type, ExtractedProp, 0).def

\* C5: renderType shows the caption of the kinds Custom, Shape, InstanceOf, ObjectOf,
\* Union, Enum and ArrayOf, with the value as title exactly when caption and value
\* differ and no title otherwise; it shows the value of a Func with no title; it
\* renders nothing for any other kind.
C5_RenderType ==
    pc = "rendered" =>
        IF type.name \in KnownKinds \ {PropTypesType_FUNC}
        THEN /\ rendered.k = "PropText"
             /\ rendered.text = TopDef.caption
             /\ (rendered.title # Nil) <=> (TopDef.caption # TopDef.value)
             /\ TopDef.caption # TopDef.value => rendered.title = TopDef.value
        ELSE IF type.name = PropTypesType_FUNC
        THEN rendered = PropText(TopDef.value, Nil)
        ELSE rendered = Null

\* an elided caption rendered with the full value as its title
C5_Witness ==
    /\ pc = "rendered"
    /\ type.name = PropTypesType_SHAPE
    /\ rendered.text = "object"
    /\ rendered.title # Nil
    /\ Len(rendered.title) > 35

\* C6 as stated: stripping an already stripped string changes nothing.
C6_Original ==
    \A n \in 2..Len(stripped) : stripped[n] = stripped[n - 1]

\* s is made of whole "PropTypes." tokens, whole ".isRequired" tokens and other
\* characters, none of which is "P" or "R"
RECURSIVE WholeTokens(_)
WholeTokens(s) ==
    IF Len(s) = 0 THEN TRUE
    ELSE IF Len(s) >= 10 /\ SubSeq(s, 1, 10) = "PropTypes."
        THEN WholeTokens(SubSeq(s, 11, Len(s)))
    ELSE IF Len(s) >= 11 /\ SubSeq(s, 1, 11) = ".isRequired"
        THEN WholeTokens(SubSeq(s, 12, Len(s)))
    ELSE /\ SubSeq(s, 1, 1) \notin {"P", "R"}
         /\ WholeTokens(SubSeq(s, 2, Len(s)))

\* C6 amended: stripping is idempotent on the strings made of whole "PropTypes."
\* tokens, whole ".isRequired" tokens and characters other than "P" and "R".
C6_Amended ==
    WholeTokens(str) => \A n \in 2..Len(stripped) : stripped[n] = stripped[n - 1]

\* a string of whole tokens stripped twice, the first stripping having removed some
C6_Witness ==
    /\ WholeTokens(str)
    /\ Len(stripped) >= 2
    /\ stripped[1] # str
    /\ stripped[1] # ""

\* C7: for an ArrayOf whose element formats as a Shape with value v and caption c,
\* value is "[" v "]", so that dropping one leading "[" and one trailing "]" gives v
\* back, and caption is "[" v "]" when the length of v is <= 35 and c "[]", that is
\* "object[]", otherwise.
C7_ArrayOfShape ==
    (/\ pc = "generated"
     /\ type.name = PropTypesType_ARRAYOF
     /\ NestedDef(type.value).name = PropTypesType_SHAPE) =>
        LET v == NestedDef(type.value).value
            c == NestedDef(type.value).caption
        IN /\ result.value = "[" \o v \o "]"
           /\ SubSeq(result.value, 2, Len(result.value) - 1) = v
           /\ Len(v) <= 35 => result.caption = "[" \o v \o "]"
           /\ Len(v) > 35 => (result.caption = c \o "[]" /\ result.caption = "object[]")

\* an ArrayOf over a Shape longer than 35 characters
C7_Witness ==
    /\ pc = "generated"
    /\ type.name = PropTypesType_ARRAYOF
    /\ NestedDef(type.value).name = PropTypesType_SHAPE
    /\ Len(NestedDef(type.value).value) > 35
    /\ result.caption = "object[]"

\* the documentation tags answer every getTypeName call
TagsAnswer ==
    jsDocTags # Undefined =>
        /\ jsDocTags.params # Undefined =>
              \A i \in DOMAIN jsDocTags.params.items :
                  jsDocTags.params.items[i].typeName # Throws
        /\ jsDocTags.returns # Undefined => jsDocTags.returns.typeName # Throws

\* the signature the documentation tags describe
Signature ==
    LET ps == jsDocTags.params.items
        one(i) == IF ps[i].typeName # Nil
                     THEN ps[i].prettyName \o ": " \o ps[i].typeName
                     ELSE ps[i].prettyName
        list == IF jsDocTags.params = Undefined THEN "()"
                ELSE "(" \o join([i \in DOMAIN ps |-> one(i)], ", ") \o ")"
    IN IF jsDocTags.returns = Undefined THEN list
       ELSE list \o " => " \o jsDocTags.returns.typeName

\* C8: for a Func with a documented parameter list or return type, caption is "func"
\* and value is the signature: the parameters in documented order, each "name: type"
\* or just "name", in parentheses, "()" without a parameter list, then " => " and
\* the return type if one is documented; without tags, or with neither, caption and
\* value are both "func".
C8_Func ==
    (pc = "generated" /\ type.name = PropTypesType_FUNC /\ TagsAnswer) =>
        /\ result.name = PropTypesType_FUNC
        /\ result.caption = "func"
        /\ result.value =
              (IF /\ jsDocTags # Undefined
                  /\ (jsDocTags.params # Undefined \/ jsDocTags.returns # Undefined)
               THEN Signature ELSE "func")

\* the two-parameter function returning a string
C8_Witness ==
    /\ pc = "generated"
    /\ type.name = PropTypesType_FUNC
    /\ result.caption = "func"
    /\ result.value = "(x: number, y) => string"

\* C9: for an ArrayOf whose element formats as Custom with an inferred kind that is
\* neither String nor Object, caption is built from the display name of the inferred
\* kind, not from the raw text of the element.
C9_InferredCaption ==
    (/\ pc = "generated"
     /\ type.name = PropTypesType_ARRAYOF
     /\ NestedDef(type.value).name = PropTypesType_CUSTOM
     /\ NestedDef(type.value).inferedType
            \notin {Nil, InspectionType_STRING, InspectionType_OBJECT}) =>
        result.caption \in {NestedDef(type.value).inferedType,
                            NestedDef(type.value).inferedType \o "[]"}

\* C10: a descriptor of any other kind passes through: name, caption and value are
\* its kind name, and no fault was caught on the way.
C10_Passthrough ==
    (pc = "generated" /\ type.name \notin KnownKinds) =>
        /\ result.name = type.name
        /\ result.caption = type.name
        /\ result.value = type.name
        /\ log = <<>>

\* the kind "string" formatted as itself
C10_Witness ==
    /\ pc = "generated"
    /\ type.name = "string"
    /\ result.caption = "string"
    /\ result # Unknown

====
